---------------------------- MODULE Spec2Model ----------------------------
(***************************************************************************)
(* The quiz-taking session of maths_story: the QuizInterface page in its   *)
(* two versions (src/frontend and src/maths_story/frontend), the           *)
(* sessionStorage handoff slots it reads and writes, the router location   *)
(* and the POST /quiz/submit round trip.                                   *)
(*                                                                         *)
(* Strings the code inspects (the typed answer, an option label) are       *)
(* sequences of one-character strings, so trim() and charAt(0) are         *)
(* computed.  An optional value (null / undefined / missing key) is a      *)
(* sequence of length 0 or 1.  Times are clock ticks; time_taken holds the *)
(* numerator of the fraction (Date.now() - questionStartTime) / 1000.      *)
(***************************************************************************)
EXTENDS Integers, Sequences, FiniteSets, TLC

VARIABLES
    version,            \* which QuizInterface is mounted: "old" | "new"
    storage,            \* sessionStorage: currentQuiz and quizResult slots
    quizId,             \* useParams().quizId
    location,           \* router location
    quiz,               \* useState(null)
    currentIndex,       \* useState(0)
    answers,            \* useState([])
    userAnswer,         \* useState("")
    startTime,          \* useState(Date.now())
    questionStartTime,  \* useState(Date.now())
    submitting,         \* useState(false)
    showHint,           \* useState(false), new version only
    loadRan,            \* the load effect has run
    crashed,            \* an exception escaped the effect or the render
    now,                \* Date.now()
    requests,           \* every api.post("/quiz/submit") issued, with its fate
    event,              \* the handler that ran last
    notice              \* the toasts that handler raised

vars == <<version, storage, quizId, location, quiz, currentIndex, answers,
          userAnswer, startTime, questionStartTime, submitting, showHint,
          loadRan, crashed, now, requests, event, notice>>

\* the pages around the quiz session, one record of component state each
VARIABLES
    resultsPage,        \* Results: useState(null) result, and its effect
    daily,              \* DailyChallenge: its useState values, the request it
                        \* awaits, the POSTs it issued, its last handler and toasts
    sw,                 \* the service worker: the cache and the fetch events
    srs,                \* SRSReview: its useState values and its requests in flight
    app,                \* App: localStorage, and the state of App in each open tab
    twin                \* the session of the other QuizInterface version that is
                        \* taken through the same events: whose turn it is, and
                        \* the session before and after the step to be repeated

aside == <<resultsPage, daily, sw, srs, app, twin>>

---------------------------------------------------------------------------
(* Bounds *)

MaxQuestions == 2

MaxFailures == 1

MaxClock == 1

---------------------------------------------------------------------------
(* Optional values *)

None == <<>>

Some(v) == <<v>>

---------------------------------------------------------------------------
(* Strings *)

IsSpace(c) == c = " "

RECURSIVE TrimStart(_)
TrimStart(s) ==
    IF Len(s) > 0 /\ IsSpace(Head(s)) THEN TrimStart(Tail(s)) ELSE s

RECURSIVE TrimEnd(_)
TrimEnd(s) ==
    IF Len(s) > 0 /\ IsSpace(s[Len(s)])
    THEN TrimEnd(SubSeq(s, 1, Len(s) - 1))
    ELSE s

\* String.prototype.trim
Trim(s) == TrimEnd(TrimStart(s))

\* String.prototype.charAt(0)
CharAt0(s) == IF Len(s) = 0 THEN <<>> ELSE <<s[1]>>

\* a string in a boolean position: "" is falsy
Truthy(s) == Len(s) > 0

\* what the user can type into the text input
Inputs == { <<>>, <<" ">>, <<" ", "7">> }

---------------------------------------------------------------------------
(* JSON *)

\* JSON.stringify of a JSON value: a string that parses back to it
JSONstringify(v) == [parses |-> TRUE, value |-> v]

\* a stored string JSON.parse throws on
Unparseable == [parses |-> FALSE, value |-> None]

JSONparseThrows(s) == ~s.parses

JSONparse(s) == s.value

---------------------------------------------------------------------------
(* Quiz material, as the quiz selection flow leaves it in currentQuiz *)

QuizIds == { "quizA", "quizB" }

Modes == { "practice", "timed" }

Options == << <<"A", ")", "x">>, <<"B", ")", "y">> >>

\* odd questions are multiple choice with a hint, even ones are open answers
Question(k) ==
    IF k % 2 = 1
    THEN [id |-> 100 + k, type |-> "mcq", options |-> Some(Options), hint |-> TRUE]
    ELSE [id |-> 100 + k, type |-> "text", options |-> None, hint |-> FALSE]

Material(mode, n) ==
    [id |-> "quizA", mode |-> mode, hasQuestions |-> TRUE,
     questions |-> [k \in 1..n |-> Question(k)]]

MaterialNoQuestions(mode) ==
    [id |-> "quizA", mode |-> mode, hasQuestions |-> FALSE, questions |-> <<>>]

StoredQuizzes ==
    { None, Some(Unparseable) }
    \cup { Some(JSONstringify(MaterialNoQuestions(m))) : m \in Modes }
    \cup { Some(JSONstringify(Material(m, n))) : m \in Modes, n \in 0..MaxQuestions }

ResultIds == { "r1", "r2" }

\* a result left in the slot by an earlier attempt
StaleResult == [id |-> "r0", quiz_id |-> "quizB", total |-> 0]

QuizPage(id) == <<"quiz", id>>

Dashboard == <<"dashboard">>

QuizHistory == <<"quiz-history">>

\* the Results page before its effect has run
ResultsUnmounted == [result |-> None, effectRan |-> FALSE]

\* DailyChallenge at mount: fetchChallenge has been called and awaits its GET
DailyMounted ==
    [challenge |-> None,
     completed |-> FALSE,
     submittedResult |-> None,
     answers |-> <<>>,
     loading |-> TRUE,
     submitting |-> FALSE,
     awaiting |-> "challenge",
     posts |-> <<>>,
     event |-> "mount",
     notice |-> <<>>]

\* paths are strings of characters, so startsWith is computed
ApiPrefix == <<"/", "a", "p", "i">>

RootPath == <<"/">>

IndexPath == <<"/", "i", "n", "d", "e", "x", ".", "h", "t", "m", "l">>

STATIC_ASSETS == { RootPath, IndexPath }

\* the paths that are requested
Paths ==
    STATIC_ASSETS
    \cup { ApiPrefix,
           ApiPrefix \o <<"/", "q">>,
           ApiPrefix \o <<"s">>,
           <<"/", "a", "p">>,
           <<"/", "a", ".", "j", "s">> }

\* what the network answers: response.ok is status in 200..299
NetworkResponses == { [ok |-> TRUE, status |-> 200], [ok |-> FALSE, status |-> 404] }

\* the worker once installed and activated: the shell is cached, no event yet
SwActivated ==
    [cache |-> [p \in Paths |-> IF p \in STATIC_ASSETS
                                THEN Some([ok |-> TRUE, status |-> 200])
                                ELSE None],
     events |-> <<>>]

\* SRSReview at mount: fetchData has been called and awaits its two GETs
SrsMounted ==
    [cards |-> <<>>,
     currentIdx |-> 0,
     answer |-> <<>>,
     showResult |-> FALSE,
     lastResult |-> None,
     loading |-> TRUE,
     fetching |-> 1,
     reviews |-> <<>>,
     event |-> "mount",
     notice |-> <<>>]

\* the tabs in which the application is open; localStorage is one per origin
MaxTabs == 2

\* App in a tab that has just opened at path: the useState values, before the
\* mount effect
AppMounted(path) ==
    [isAuthenticated |-> FALSE,
     user |-> None,
     effectRan |-> FALSE,
     crashed |-> FALSE,
     path |-> path,
     event |-> "mount"]

\* the application is open in one tab, already signed in, showing the quiz
AppSignedIn ==
    [localStorage |-> [token |-> Some("t1"),
                       user |-> Some(JSONstringify([name |-> "ann"]))],
     tabs |-> [t \in 1..MaxTabs |->
                 [isAuthenticated |-> t = 1,
                  user |-> IF t = 1 THEN Some([name |-> "ann"]) ELSE None,
                  effectRan |-> t = 1,
                  crashed |-> FALSE,
                  path |-> IF t = 1 THEN "/quiz/:quizId" ELSE "closed",
                  event |-> "mount"]]]

\* the other pages are not on screen while the quiz is taken
\* the two versions are in step: no event is waiting to be repeated
TwinInStep == [turn |-> "lead", pre |-> None, post |-> None]

AsideIdle ==
    /\ twin = TwinInStep
    /\ resultsPage = ResultsUnmounted
    /\ daily = DailyMounted
    /\ sw = SwActivated
    /\ srs = SrsMounted
    /\ app = AppSignedIn

SelectPage == <<"quiz", "select">>

ResultsPage(id) == <<"results", id>>

---------------------------------------------------------------------------
(* Construction: the component has mounted, no effect has run yet *)

Init ==
    /\ version \in { "old", "new" }
    /\ storage \in [currentQuiz : StoredQuizzes,
                    quizResult : { None, Some(JSONstringify(StaleResult)) }]
    /\ quizId \in QuizIds
    /\ location = QuizPage(quizId)
    /\ quiz = None
    /\ currentIndex = 0
    /\ answers = <<>>
    /\ userAnswer = <<>>
    /\ now = 0
    /\ startTime = 0
    /\ questionStartTime = 0
    /\ submitting = FALSE
    /\ showHint = FALSE
    /\ loadRan = FALSE
    /\ crashed = FALSE
    /\ requests = <<>>
    /\ event = "mount"
    /\ notice = <<>>
    /\ AsideIdle

\* the component is mounted and alive
Mounted == location = QuizPage(quizId) /\ ~crashed

---------------------------------------------------------------------------
(* Rendering *)

\* new version: neither the spinner nor the "No questions available" screen
RendersQuestion(q, sub) ==
    /\ q # None
    /\ ~sub
    /\ q[1].hasQuestions
    /\ Len(q[1].questions) > 0

\* old version: past the spinner the question card is rendered unconditionally
RendersQuestionOld(q, sub) == q # None /\ ~sub

\* old version: quiz.questions[currentIndex] and currentQuestion.type throw a
\* TypeError when questions is absent or has no entry at currentIndex
RenderThrowsOld(q, sub, idx) ==
    /\ RendersQuestionOld(q, sub)
    /\ (~q[1].hasQuestions \/ idx >= Len(q[1].questions))

\* Interactive without the submitting spinner: the card stays up during a request
Interactive_NoSpinner ==
    /\ Mounted
    /\ quiz # None
    /\ quiz[1].hasQuestions
    /\ Len(quiz[1].questions) > 0

\* the question card is on screen and takes input
Interactive ==
    /\ Mounted
    /\ IF version = "new"
       THEN RendersQuestion(quiz, submitting)
       ELSE RendersQuestionOld(quiz, submitting)

currentQuestion == quiz[1].questions[currentIndex + 1]

\* the text input is rendered instead of the option buttons
TextInputShown == ~(currentQuestion.type = "mcq" /\ currentQuestion.options # None)

---------------------------------------------------------------------------
(* The load effect *)

LoadEffect ==
    /\ version = "new"
    /\ Mounted
    /\ ~loadRan
    /\ loadRan' = TRUE
    /\ event' = "load"
    /\ LET storedQuiz == storage.currentQuiz IN
       IF storedQuiz # None
       THEN IF JSONparseThrows(storedQuiz[1])
            THEN /\ notice' = <<"Failed to load quiz">>
                 /\ location' = SelectPage
                 /\ UNCHANGED <<quiz, questionStartTime>>
            ELSE LET parsedQuiz == JSONparse(storedQuiz[1]) IN
                 IF ~parsedQuiz.hasQuestions \/ Len(parsedQuiz.questions) = 0
                 THEN /\ notice' = <<"Quiz has no questions">>
                      /\ location' = SelectPage
                      /\ UNCHANGED <<quiz, questionStartTime>>
                 ELSE /\ quiz' = Some(parsedQuiz)
                      /\ questionStartTime' = now
                      /\ notice' = <<>>
                      /\ UNCHANGED location
       ELSE /\ notice' = <<"Quiz not found">>
            /\ location' = SelectPage
            /\ UNCHANGED <<quiz, questionStartTime>>
    /\ UNCHANGED <<version, storage, quizId, currentIndex, answers, userAnswer,
                   startTime, submitting, showHint, crashed, now, requests>>

LoadEffectOld ==
    /\ version = "old"
    /\ Mounted
    /\ ~loadRan
    /\ loadRan' = TRUE
    /\ event' = "load"
    /\ LET storedQuiz == storage.currentQuiz IN
       IF storedQuiz # None
       THEN IF JSONparseThrows(storedQuiz[1])
            THEN /\ crashed' = TRUE
                 /\ notice' = <<>>
                 /\ UNCHANGED <<quiz, questionStartTime, location>>
            ELSE /\ quiz' = Some(JSONparse(storedQuiz[1]))
                 /\ questionStartTime' = now
                 /\ crashed' = RenderThrowsOld(quiz', submitting, currentIndex)
                 /\ notice' = <<>>
                 /\ UNCHANGED location
       ELSE /\ notice' = <<"Quiz not found">>
            /\ location' = SelectPage
            /\ UNCHANGED <<quiz, questionStartTime, crashed>>
    /\ UNCHANGED <<version, storage, quizId, currentIndex, answers, userAnswer,
                   startTime, submitting, showHint, now, requests>>

---------------------------------------------------------------------------
(* The clock and the user's input *)

\* time passes while the page is open
Tick ==
    /\ Mounted
    /\ now < MaxClock
    /\ now' = now + 1
    /\ event' = "tick"
    /\ notice' = <<>>
    /\ UNCHANGED <<version, storage, quizId, location, quiz, currentIndex,
                   answers, userAnswer, startTime, questionStartTime,
                   submitting, showHint, loadRan, crashed, requests>>

\* onChange of the text input
TypeAnswer(value) ==
    /\ Interactive
    /\ TextInputShown
    /\ userAnswer' = value
    /\ event' = "type"
    /\ notice' = <<>>
    /\ UNCHANGED <<version, storage, quizId, location, quiz, currentIndex,
                   answers, startTime, questionStartTime, submitting,
                   showHint, loadRan, crashed, now, requests>>

\* onClick of option button idx
ClickOption(idx) ==
    /\ Interactive
    /\ ~TextInputShown
    /\ idx \in 1..Len(currentQuestion.options[1])
    /\ userAnswer' = CharAt0(currentQuestion.options[1][idx])
    /\ event' = "option"
    /\ notice' = <<>>
    /\ UNCHANGED <<version, storage, quizId, location, quiz, currentIndex,
                   answers, startTime, questionStartTime, submitting,
                   showHint, loadRan, crashed, now, requests>>

\* onClick of Show Hint
ClickShowHint ==
    /\ version = "new"
    /\ Interactive
    /\ quiz[1].mode = "practice"
    /\ currentQuestion.hint
    /\ ~showHint
    /\ showHint' = TRUE
    /\ event' = "hint"
    /\ notice' = <<>>
    /\ UNCHANGED <<version, storage, quizId, location, quiz, currentIndex,
                   answers, userAnswer, startTime, questionStartTime,
                   submitting, loadRan, crashed, now, requests>>

---------------------------------------------------------------------------
(* Recording an answer *)

\* IsBlank without the trim: only "" is refused
IsBlank_NoTrim(answer) == ~Truthy(answer)

\* !userAnswer.trim()
IsBlank(answer) == ~Truthy(Trim(answer))

\* HasNextQuestion that never sees the last question
HasNextQuestion_Always(idx, questions) == TRUE

\* HasNextQuestion off by one: the last but one question counts as the last
HasNextQuestion_OffByOne(idx, questions) == idx < Len(questions) - 2

\* currentIndex < quiz.questions.length - 1
HasNextQuestion(idx, questions) == idx < Len(questions) - 1

\* answerData with the subtraction turned around
answerData_StartMinusNow(question, answer, timeTaken) ==
    [question_id |-> question.id,
     user_answer |-> answer,
     time_taken |-> 0 - timeTaken,
     is_correct |-> FALSE]

\* the record appended for the current question
answerData(question, answer, timeTaken) ==
    [question_id |-> question.id,
     user_answer |-> answer,
     time_taken |-> timeTaken,
     is_correct |-> FALSE]

\* the body of the POST /quiz/submit request
SubmitPayload(id, allAnswers) == [quiz_id |-> id, answers |-> allAnswers]

\* submitQuiz without setSubmitting(true): the request leaves, no spinner
submitQuiz_NoSpinner(allAnswers) ==
    /\ submitting' = submitting
    /\ requests' = Append(requests,
                          [payload |-> [quiz_id |-> quizId, answers |-> allAnswers],
                           accepted |-> FALSE,
                           result |-> None,
                           outcome |-> "pending"])

\* submitQuiz up to its await: the spinner comes up and the request leaves
submitQuiz(allAnswers) ==
    /\ submitting' = TRUE
    /\ requests' = Append(requests,
                          [payload |-> SubmitPayload(quizId, allAnswers),
                           accepted |-> FALSE,
                           result |-> None,
                           outcome |-> "pending"])

\* Enter in the text input, or a click on the enabled submit button
CanSubmitAnswer == TextInputShown \/ Truthy(userAnswer)

\* handleAnswerSubmit without setShowHint(false)
handleAnswerSubmit_KeepsHint ==
    /\ version = "new"
    /\ Interactive
    /\ CanSubmitAnswer
    /\ event' = "answer"
    /\ IF IsBlank(userAnswer)
       THEN /\ notice' = <<"Please provide an answer">>
            /\ UNCHANGED <<answers, userAnswer, currentIndex,
                           questionStartTime, submitting, requests>>
       ELSE LET timeTaken == now - questionStartTime
                allAnswers == Append(answers,
                                     answerData(currentQuestion, userAnswer, timeTaken))
            IN  /\ answers' = allAnswers
                /\ userAnswer' = <<>>
                /\ notice' = <<>>
                /\ IF HasNextQuestion(currentIndex, quiz[1].questions)
                   THEN /\ currentIndex' = currentIndex + 1
                        /\ questionStartTime' = now
                        /\ UNCHANGED <<submitting, requests>>
                   ELSE /\ submitQuiz(allAnswers)
                        /\ UNCHANGED <<currentIndex, questionStartTime>>
    /\ UNCHANGED <<version, storage, quizId, location, quiz, startTime,
                   showHint, loadRan, crashed, now>>

handleAnswerSubmit ==
    /\ version = "new"
    /\ Interactive
    /\ CanSubmitAnswer
    /\ event' = "answer"
    /\ IF IsBlank(userAnswer)
       THEN /\ notice' = <<"Please provide an answer">>
            /\ UNCHANGED <<answers, userAnswer, showHint, currentIndex,
                           questionStartTime, submitting, requests>>
       ELSE LET timeTaken == now - questionStartTime
                allAnswers == Append(answers,
                                     answerData(currentQuestion, userAnswer, timeTaken))
            IN  /\ answers' = allAnswers
                /\ userAnswer' = <<>>
                /\ showHint' = FALSE
                /\ notice' = <<>>
                /\ IF HasNextQuestion(currentIndex, quiz[1].questions)
                   THEN /\ currentIndex' = currentIndex + 1
                        /\ questionStartTime' = now
                        /\ UNCHANGED <<submitting, requests>>
                   ELSE /\ submitQuiz(allAnswers)
                        /\ UNCHANGED <<currentIndex, questionStartTime>>
    /\ UNCHANGED <<version, storage, quizId, location, quiz, startTime,
                   loadRan, crashed, now>>

\* the older handleAnswerSubmit without setUserAnswer("")
handleAnswerSubmitOld_KeepsInput ==
    /\ version = "old"
    /\ Interactive
    /\ CanSubmitAnswer
    /\ event' = "answer"
    /\ IF IsBlank(userAnswer)
       THEN /\ notice' = <<"Please provide an answer">>
            /\ UNCHANGED <<answers, userAnswer, currentIndex,
                           questionStartTime, submitting, requests>>
       ELSE LET timeTaken == now - questionStartTime
                allAnswers == Append(answers,
                                     answerData(currentQuestion, userAnswer, timeTaken))
            IN  /\ answers' = allAnswers
                /\ UNCHANGED userAnswer
                /\ notice' = <<>>
                /\ IF HasNextQuestion(currentIndex, quiz[1].questions)
                   THEN /\ currentIndex' = currentIndex + 1
                        /\ questionStartTime' = now
                        /\ UNCHANGED <<submitting, requests>>
                   ELSE /\ submitQuiz(allAnswers)
                        /\ UNCHANGED <<currentIndex, questionStartTime>>
    /\ UNCHANGED <<version, storage, quizId, location, quiz, startTime,
                   showHint, loadRan, crashed, now>>

handleAnswerSubmitOld ==
    /\ version = "old"
    /\ Interactive
    /\ CanSubmitAnswer
    /\ event' = "answer"
    /\ IF IsBlank(userAnswer)
       THEN /\ notice' = <<"Please provide an answer">>
            /\ UNCHANGED <<answers, userAnswer, currentIndex,
                           questionStartTime, submitting, requests>>
       ELSE LET timeTaken == now - questionStartTime
                allAnswers == Append(answers,
                                     answerData(currentQuestion, userAnswer, timeTaken))
            IN  /\ answers' = allAnswers
                /\ userAnswer' = <<>>
                /\ notice' = <<>>
                /\ IF HasNextQuestion(currentIndex, quiz[1].questions)
                   THEN /\ currentIndex' = currentIndex + 1
                        /\ questionStartTime' = now
                        /\ UNCHANGED <<submitting, requests>>
                   ELSE /\ submitQuiz(allAnswers)
                        /\ UNCHANGED <<currentIndex, questionStartTime>>
    /\ UNCHANGED <<version, storage, quizId, location, quiz, startTime,
                   showHint, loadRan, crashed, now>>

---------------------------------------------------------------------------
(* The submission round trip *)

Pending(i) == i \in 1..Len(requests) /\ requests[i].outcome = "pending"

\* the grading service takes the request and forms its result
RemoteAccept(i, resultId) ==
    /\ Pending(i)
    /\ ~requests[i].accepted
    /\ requests' = [requests EXCEPT
                      ![i].accepted = TRUE,
                      ![i].result = Some([id |-> resultId,
                                          quiz_id |-> requests[i].payload.quiz_id,
                                          total |-> Len(requests[i].payload.answers)])]
    /\ event' = "remote"
    /\ notice' = <<>>
    /\ UNCHANGED <<version, storage, quizId, location, quiz, currentIndex,
                   answers, userAnswer, startTime, questionStartTime,
                   submitting, showHint, loadRan, crashed, now>>

\* submitQuizThen without removeItem("currentQuiz")
submitQuizThen_KeepsQuiz(i) ==
    /\ i \in 1..Len(requests)
    /\ requests[i].outcome = "pending"
    /\ requests[i].accepted
    /\ LET result == requests[i].result[1] IN
       /\ storage' = [storage EXCEPT !.quizResult = Some([parses |-> TRUE, value |-> result])]
       /\ location' = ResultsPage(result.id)
    /\ requests' = [requests EXCEPT ![i].outcome = "ok"]
    /\ event' = "resolved"
    /\ notice' = <<>>
    /\ UNCHANGED <<version, quizId, quiz, currentIndex, answers, userAnswer,
                   startTime, questionStartTime, submitting, showHint,
                   loadRan, crashed, now>>

\* submitQuizThen followed by a finally { setSubmitting(false) }
submitQuizThen_FinallyResets(i) ==
    /\ i \in 1..Len(requests)
    /\ requests[i].outcome = "pending"
    /\ requests[i].accepted
    /\ LET result == requests[i].result[1] IN
       /\ storage' = [storage EXCEPT !.quizResult = Some([parses |-> TRUE, value |-> result]),
                                     !.currentQuiz = None]
       /\ location' = ResultsPage(result.id)
    /\ submitting' = FALSE
    /\ requests' = [requests EXCEPT ![i].outcome = "ok"]
    /\ event' = "resolved"
    /\ notice' = <<>>
    /\ UNCHANGED <<version, quizId, quiz, currentIndex, answers, userAnswer,
                   startTime, questionStartTime, showHint,
                   loadRan, crashed, now>>

\* the await returns: the try block runs to its end
submitQuizThen(i) ==
    /\ Pending(i)
    /\ requests[i].accepted
    /\ LET result == requests[i].result[1] IN
       /\ storage' = [storage EXCEPT !.quizResult = Some(JSONstringify(result)),
                                     !.currentQuiz = None]
       /\ location' = ResultsPage(result.id)
    /\ requests' = [requests EXCEPT ![i].outcome = "ok"]
    /\ event' = "resolved"
    /\ notice' = <<>>
    /\ UNCHANGED <<version, quizId, quiz, currentIndex, answers, userAnswer,
                   startTime, questionStartTime, submitting, showHint,
                   loadRan, crashed, now>>

\* submitQuizCatch that also drops the quiz material
submitQuizCatch_ClearsQuiz(i) ==
    /\ i \in 1..Len(requests)
    /\ requests[i].outcome = "pending"
    /\ Len(requests) <= MaxFailures
    /\ notice' = <<"Failed to submit quiz">>
    /\ submitting' = FALSE
    /\ storage' = [storage EXCEPT !.currentQuiz = None]
    /\ requests' = [requests EXCEPT ![i].outcome = "failed"]
    /\ event' = "rejected"
    /\ UNCHANGED <<version, quizId, location, quiz, currentIndex, crashed,
                   answers, userAnswer, startTime, questionStartTime,
                   showHint, loadRan, now>>

\* submitQuizCatch that sends the request again by itself
submitQuizCatch_AutoRetry(i) ==
    /\ i \in 1..Len(requests)
    /\ requests[i].outcome = "pending"
    /\ Len(requests) <= MaxFailures
    /\ notice' = <<"Failed to submit quiz">>
    /\ requests' = Append([requests EXCEPT ![i].outcome = "failed"],
                          [payload |-> requests[i].payload,
                           accepted |-> FALSE,
                           result |-> None,
                           outcome |-> "pending"])
    /\ event' = "rejected"
    /\ UNCHANGED <<version, storage, quizId, location, quiz, currentIndex,
                   answers, userAnswer, startTime, questionStartTime,
                   submitting, showHint, loadRan, crashed, now>>

\* submitQuizCatch that sends the user back to the first question
submitQuizCatch_ResetsIndex(i) ==
    /\ i \in 1..Len(requests)
    /\ requests[i].outcome = "pending"
    /\ Len(requests) <= MaxFailures
    /\ notice' = <<"Failed to submit quiz">>
    /\ submitting' = FALSE
    /\ currentIndex' = 0
    /\ requests' = [requests EXCEPT ![i].outcome = "failed"]
    /\ event' = "rejected"
    /\ UNCHANGED <<version, storage, quizId, location, quiz, crashed,
                   answers, userAnswer, startTime, questionStartTime,
                   showHint, loadRan, now>>

\* submitQuizCatch without setSubmitting(false): the spinner never goes away
submitQuizCatch_KeepsSpinner(i) ==
    /\ i \in 1..Len(requests)
    /\ requests[i].outcome = "pending"
    /\ Len(requests) <= MaxFailures
    /\ notice' = <<"Failed to submit quiz">>
    /\ requests' = [requests EXCEPT ![i].outcome = "failed"]
    /\ event' = "rejected"
    /\ UNCHANGED <<version, storage, quizId, location, quiz, currentIndex,
                   answers, userAnswer, startTime, questionStartTime,
                   submitting, showHint, loadRan, crashed, now>>

\* the await throws (no response, or an error status): the catch block runs
submitQuizCatch(i) ==
    /\ Pending(i)
    /\ Len(requests) <= MaxFailures
    /\ notice' = <<"Failed to submit quiz">>
    /\ submitting' = FALSE
    /\ crashed' = (version = "old" /\ RenderThrowsOld(quiz, submitting', currentIndex))
    /\ requests' = [requests EXCEPT ![i].outcome = "failed"]
    /\ event' = "rejected"
    /\ UNCHANGED <<version, storage, quizId, location, quiz, currentIndex,
                   answers, userAnswer, startTime, questionStartTime,
                   showHint, loadRan, now>>

---------------------------------------------------------------------------

Next ==
    \/ LoadEffect /\ UNCHANGED aside
    \/ LoadEffectOld /\ UNCHANGED aside
    \/ Tick /\ UNCHANGED aside
    \/ \E value \in Inputs : TypeAnswer(value) /\ UNCHANGED aside
    \/ \E idx \in 1..Len(Options) : ClickOption(idx) /\ UNCHANGED aside
    \/ ClickShowHint /\ UNCHANGED aside
    \/ handleAnswerSubmit /\ UNCHANGED aside
    \/ handleAnswerSubmitOld /\ UNCHANGED aside
    \/ \E i \in 1..Len(requests), resultId \in ResultIds :
           RemoteAccept(i, resultId) /\ UNCHANGED aside
    \/ \E i \in 1..Len(requests) : submitQuizThen(i) /\ UNCHANGED aside
    \/ \E i \in 1..Len(requests) : submitQuizCatch(i) /\ UNCHANGED aside

Spec == Init /\ [][Next]_vars

---------------------------------------------------------------------------
(* Session status, as the spec names it *)

Loaded == quiz # None

Answering == Mounted /\ Loaded /\ ~submitting

Submitting == Mounted /\ submitting

questionCount == Len(quiz[1].questions)

\* a step on which the session enters Submitting
EntersSubmitting == ~submitting /\ submitting'

---------------------------------------------------------------------------
(* Claims *)

\* C1: in every Answering state (quiz loaded, submitting = false)
\* answers.length equals currentIndex, also after a failed submission.
C1_AnswersLengthIsIndex == Answering => Len(answers) = currentIndex

\* C2: a retry after a failed submission re-sends the payload of the failed
\* request: every request carries the same payload as the one before it.
C2_RetrySendsSamePayload ==
    \A i \in 2..Len(requests) : requests[i].payload = requests[i - 1].payload

\* C3: the step on which a submission fails leaves currentQuiz populated,
\* does not write quizResult, leaves answers as they were, and ends with
\* submitting = false at the final question.
C3_FailureKeepsSession ==
    [][event' = "rejected" =>
          /\ storage'.currentQuiz # None
          /\ storage'.currentQuiz = storage.currentQuiz
          /\ storage'.quizResult = storage.quizResult
          /\ answers' = answers
          /\ submitting /\ ~submitting'
          /\ Loaded'
          /\ currentIndex' = Len(quiz'[1].questions) - 1
          /\ location' = location]_vars

C3_Witness ==
    /\ event = "rejected"
    /\ Answering
    /\ storage.currentQuiz # None
    /\ currentIndex = questionCount - 1

\* C4: once a submission request has been issued (Submitting has begun),
\* answers never changes again.
C4_AnswersFrozenAfterSubmitting ==
    [][Len(requests) > 0 => answers' = answers]_vars

C6_NthAnswerSubmits ==
    [][/\ (Loaded' /\ Len(answers') < Len(quiz'[1].questions)) =>
            /\ requests' = <<>>
            /\ ~submitting'
            /\ location' = QuizPage(quizId') /\ ~crashed'
       /\ (Loaded /\ Len(answers') = questionCount /\ Len(answers) < questionCount) =>
            /\ event' = "answer"
            /\ Truthy(Trim(userAnswer))
            /\ Len(requests) = 0 /\ Len(requests') = 1
            /\ submitting'
       /\ (event' = "answer" /\ ~Truthy(Trim(userAnswer))) =>
            /\ answers' = answers
            /\ requests' = requests]_vars

C6_Witness ==
    /\ Loaded
    /\ questionCount >= 2
    /\ Len(answers) = questionCount
    /\ Len(requests) = 1
    /\ requests[1].outcome = "pending"
    /\ Len(requests[1].payload.answers) = questionCount

\* C7: every submission request carries exactly n answer records, the k-th
\* for questions[k], with a non-blank user_answer and is_correct = false.
C7_PayloadIsOneRecordPerQuestion ==
    Loaded =>
        \A i \in 1..Len(requests) :
            LET sent == requests[i].payload.answers IN
            /\ Len(sent) = questionCount
            /\ \A k \in 1..Len(sent) :
                   /\ sent[k].question_id = quiz[1].questions[k].id
                   /\ Truthy(Trim(sent[k].user_answer))
                   /\ sent[k].is_correct = FALSE

\* C8: handleAnswerSubmit with an empty or whitespace-only answer changes
\* nothing in the session, issues no request and raises the validation
\* notice, every time.
C8_BlankAnswerRejected ==
    [][(event' = "answer" /\ ~Truthy(Trim(userAnswer))) =>
          /\ notice' = <<"Please provide an answer">>
          /\ UNCHANGED <<currentIndex, answers, userAnswer, questionStartTime,
                         showHint, submitting, requests, storage, location,
                         quiz>>]_vars

C8_Witness ==
    /\ event = "answer"
    /\ notice = <<"Please provide an answer">>
    /\ userAnswer = <<" ">>
    /\ Len(answers) > 0

\* C9: when the request succeeds currentQuiz is removed, quizResult holds the
\* server's response as sent, and the location is /results/<response id>;
\* whenever the location is a results page the slot holds that result.
C9_SuccessHandsOverResult ==
    [][event' = "resolved" =>
          \E i \in 1..Len(requests) :
              /\ requests[i].outcome = "pending"
              /\ requests'[i].outcome = "ok"
              /\ requests[i].result # None
              /\ storage'.currentQuiz = None
              /\ storage'.quizResult # None
              /\ ~JSONparseThrows(storage'.quizResult[1])
              /\ JSONparse(storage'.quizResult[1]) = requests[i].result[1]
              /\ location' = ResultsPage(requests[i].result[1].id)]_vars

C9_Witness ==
    /\ event = "resolved"
    /\ location \in { ResultsPage(id) : id \in ResultIds }
    /\ storage.currentQuiz = None
    /\ storage.quizResult # None
    /\ JSONparse(storage.quizResult[1]).id = location[2]

\* C10: material whose questions list is empty or absent never yields an
\* Answering session: after the load quiz is unset and the location is quiz
\* selection, in both versions of QuizInterface.
C10_EmptyQuizIsRefused ==
    (/\ loadRan
     /\ storage.currentQuiz # None
     /\ ~JSONparseThrows(storage.currentQuiz[1])
     /\ LET material == JSONparse(storage.currentQuiz[1]) IN
        ~material.hasQuestions \/ Len(material.questions) = 0)
    => (quiz = None /\ location = SelectPage)

\* the requests that have not settled yet
Outstanding == { i \in 1..Len(requests) : requests[i].outcome = "pending" }

\* the session has navigated away from the quiz page
Terminated == location # QuizPage(quizId)

\* the currentQuiz slot is missing or holds a string JSON.parse throws on
MaterialUnusable ==
    \/ storage.currentQuiz = None
    \/ JSONparseThrows(storage.currentQuiz[1])

\* C11: when currentQuiz is missing or unparseable at load, the session ends
\* at /quiz/select with no partial session: quiz stays null, nothing is
\* recorded and nothing is submitted.
C11_UnusableMaterialRedirects ==
    [][/\ (event' = "load" /\ MaterialUnusable) =>
            /\ location' = SelectPage
            /\ ~crashed'
            /\ quiz' = None
       /\ (loadRan' /\ quiz' = None) =>
            /\ answers' = <<>>
            /\ requests' = <<>>]_vars

\* C12: at most one submission request is outstanding at any time, and while
\* one is outstanding no answer is taken and no further request is issued.
C12_OneOperationInFlight ==
    [][/\ Cardinality({ i \in 1..Len(requests') : requests'[i].outcome = "pending" }) <= 1
       /\ (\E i \in 1..Len(requests) : requests[i].outcome = "pending") =>
            /\ event' # "answer"
            /\ UNCHANGED <<answers, currentIndex, userAnswer>>
            /\ Len(requests') = Len(requests)]_vars

C12_Witness ==
    /\ Cardinality(Outstanding) = 1
    /\ \E i \in Outstanding : requests[i].accepted
    /\ event = "tick"
    /\ submitting

\* C13: once a submission attempt has resolved, either the service has
\* accepted the full set of n answers (and the attempt succeeded) or the
\* session is back in its retryable state with nothing accepted, never both.
C13_AcceptedOrRetryable ==
    Loaded =>
        \A i \in 1..Len(requests) :
            /\ requests[i].outcome = "ok" =>
                   /\ requests[i].accepted
                   /\ Len(requests[i].payload.answers) = questionCount
            /\ requests[i].outcome = "failed" => ~requests[i].accepted

\* C14: a submission request is issued only by a step in which the user
\* submits a non-blank answer; the step on which a request fails issues none
\* and leaves none outstanding.
C14_NoAutomaticRetry ==
    [][/\ Len(requests') # Len(requests) =>
            /\ event' = "answer"
            /\ Truthy(Trim(userAnswer))
            /\ Len(requests') = Len(requests) + 1
       /\ event' = "rejected" =>
            /\ Len(requests') = Len(requests)
            /\ \A i \in 1..Len(requests') : requests'[i].outcome # "pending"]_vars

C14_Witness ==
    /\ Answering
    /\ event = "tick"
    /\ Len(requests) = 1
    /\ requests[1].outcome = "failed"

\* C15: currentIndex changes only on a step that accepts a non-blank answer,
\* then by exactly +1 together with one appended record; it never decreases.
C15_IndexAdvancesByOne ==
    [][/\ currentIndex' >= currentIndex
       /\ currentIndex' # currentIndex =>
            /\ event' = "answer"
            /\ Truthy(Trim(userAnswer))
            /\ currentIndex' = currentIndex + 1
            /\ Len(answers') = Len(answers) + 1]_vars

C15_Witness ==
    /\ Answering
    /\ event = "answer"
    /\ currentIndex = 1
    /\ Len(answers) = 1
    /\ notice = <<>>

C17_AnswersAppendOnly ==
    [][answers' # answers =>
          /\ Len(answers') = Len(answers) + 1
          /\ SubSeq(answers', 1, Len(answers)) = answers
          /\ Len(answers') = currentIndex + 1]_vars

\* C18: the record appended on acceptance has time_taken >= 0, equal to the
\* clock time since its question became current; questionStartTime is set to
\* the clock when the quiz loads and when the index advances, and only then.
C18_TimeTakenIsElapsed ==
    [][/\ Len(answers') = Len(answers) + 1 =>
            /\ answers'[Len(answers')].time_taken = now - questionStartTime
            /\ answers'[Len(answers')].time_taken >= 0
            /\ now' = now
       /\ (quiz = None /\ quiz' # None) => questionStartTime' = now
       /\ currentIndex' # currentIndex => questionStartTime' = now
       /\ questionStartTime' # questionStartTime =>
            \/ quiz = None /\ quiz' # None
            \/ currentIndex' # currentIndex]_vars

C18_Witness ==
    /\ Len(answers) = 2
    /\ answers[1].time_taken = 1
    /\ answers[2].time_taken = 0
    /\ now = 1

C20_EveryFailureIsNoticed ==
    [][/\ ~crashed'
       /\ (event' = "load" /\ (MaterialUnusable \/ quiz' = None)) =>
            /\ notice' # <<>>
            /\ location' = SelectPage
       /\ (event' = "answer" /\ ~Truthy(Trim(userAnswer))) =>
            /\ notice' # <<>>
            /\ answers' = answers
       /\ event' = "rejected" =>
            /\ notice' # <<>>
            /\ ~submitting']_vars

---------------------------------------------------------------------------
(* Progress of a session: the user keeps answering and every request is     *)
(* answered in the end.                                                      *)

\* the user supplies a non-empty answer: types one, or picks an option
SuppliesAnswer ==
    /\ \/ \E value \in Inputs : Truthy(Trim(value)) /\ TypeAnswer(value)
       \/ \E idx \in 1..Len(Options) : ClickOption(idx)
    /\ UNCHANGED aside

\* the user submits an answer that passes the blank check
AcceptsAnswer ==
    /\ ~IsBlank(userAnswer)
    /\ (handleAnswerSubmit \/ handleAnswerSubmitOld)
    /\ UNCHANGED aside

\* the promise of api.post settles, either way
Resolves ==
    /\ \E i \in 1..Len(requests) : submitQuizThen(i) \/ submitQuizCatch(i)
    /\ UNCHANGED aside

\* the service gets to every request that stays pending
Serves ==
    /\ \E i \in 1..Len(requests), resultId \in ResultIds : RemoteAccept(i, resultId)
    /\ UNCHANGED aside

\* React runs the mount effect; the user keeps supplying and submitting
\* non-empty answers; every request settles, and not every one fails
SpecLive ==
    /\ Init
    /\ [][Next]_vars
    /\ WF_vars((LoadEffect \/ LoadEffectOld) /\ UNCHANGED aside)
    /\ SF_vars(SuppliesAnswer)
    /\ SF_vars(AcceptsAnswer)
    /\ WF_vars(Serves)
    /\ WF_vars(Resolves)

\* the load effect has produced a session with at least one question
LoadedWithQuestions ==
    /\ Mounted
    /\ Loaded
    /\ quiz[1].hasQuestions
    /\ Len(quiz[1].questions) >= 1

AtResults == location \in { ResultsPage(id) : id \in ResultIds }

\* C21: a session loaded with n >= 1 questions, whose user keeps supplying
\* non-empty answers and whose requests all settle, not all of them failing,
\* eventually navigates to the results view; and while a request is pending
\* the session stays in Submitting: the only steps that end the wait are the
\* two settlements of that request.
C21_EventuallyResultsOrWaits ==
    /\ LoadedWithQuestions ~> AtResults
    /\ [][(\E i \in 1..Len(requests) : requests[i].outcome = "pending") =>
            \/ event' \in { "resolved", "rejected" }
            \/ /\ submitting /\ submitting'
               /\ location' = QuizPage(quizId') /\ ~crashed'
               /\ \E i \in 1..Len(requests') : requests'[i].outcome = "pending"
               /\ UNCHANGED <<answers, currentIndex, quiz, storage>>]_vars

C21_Witness ==
    /\ AtResults
    /\ event = "resolved"
    /\ questionCount = MaxQuestions
    /\ Len(requests) = 2
    /\ requests[1].outcome = "failed"
    /\ requests[2].outcome = "ok"
    /\ now = MaxClock

---------------------------------------------------------------------------
(* The Results page, where a successful session ends *)

\* the effect on [resultId, navigate]: read the handoff slot or go away
\* the pages that are not on screen while the Results page is
ResultsOthers == <<daily, sw, srs, app, twin>>

ResultsEffect ==
    /\ location[1] = "results"
    /\ ~crashed
    /\ ~resultsPage.effectRan
    /\ event' = "results"
    /\ notice' = <<>>
    /\ LET storedResult == storage.quizResult IN
       IF storedResult # None
       THEN IF JSONparseThrows(storedResult[1])
            THEN /\ crashed' = TRUE
                 /\ resultsPage' = [resultsPage EXCEPT !.effectRan = TRUE]
                 /\ UNCHANGED location
            ELSE /\ resultsPage' = [result |-> Some(JSONparse(storedResult[1])),
                                    effectRan |-> TRUE]
                 /\ UNCHANGED <<location, crashed>>
       ELSE /\ resultsPage' = [resultsPage EXCEPT !.effectRan = TRUE]
            /\ location' = Dashboard
            /\ UNCHANGED crashed
    /\ UNCHANGED <<version, storage, quizId, quiz, currentIndex, answers,
                   userAnswer, startTime, questionStartTime, submitting,
                   showHint, loadRan, now, requests>>
    /\ UNCHANGED ResultsOthers

\* past the spinner: the score card and the action buttons are rendered
ResultsShown ==
    /\ location[1] = "results"
    /\ ~crashed
    /\ resultsPage.result # None

\* an action button that navigates without removeItem("quizResult")
LeaveResults_KeepsResult(target) ==
    /\ ResultsShown
    /\ location' = target
    /\ resultsPage' = ResultsUnmounted
    /\ event' = "leave"
    /\ notice' = <<>>
    /\ UNCHANGED <<version, storage, quizId, quiz, currentIndex, answers, userAnswer,
                   startTime, questionStartTime, submitting, showHint,
                   loadRan, crashed, now, requests>>
    /\ UNCHANGED ResultsOthers

\* onClick of an action button: removeItem("quizResult"), then navigate(target)
LeaveResults(target) ==
    /\ ResultsShown
    /\ storage' = [storage EXCEPT !.quizResult = None]
    /\ location' = target
    /\ resultsPage' = ResultsUnmounted
    /\ event' = "leave"
    /\ notice' = <<>>
    /\ UNCHANGED <<version, quizId, quiz, currentIndex, answers, userAnswer,
                   startTime, questionStartTime, submitting, showHint,
                   loadRan, crashed, now, requests>>
    /\ UNCHANGED ResultsOthers

TakeAnotherQuiz == LeaveResults(SelectPage)

\* the newer Results page only
ViewHistory == version = "new" /\ LeaveResults(QuizHistory)

BackToDashboard == LeaveResults(Dashboard)

NextResults ==
    \/ Next
    \/ ResultsEffect
    \/ TakeAnotherQuiz
    \/ ViewHistory
    \/ BackToDashboard

\* the quiz session followed by the Results page
SpecResults == Init /\ [][NextResults]_<<vars, aside>>

\* C22: every step that leaves the results view (Take Another Quiz, View
\* History, Dashboard) ends with the quizResult slot empty, and the slot is
\* written only by the step on which a submission succeeds, which happens at
\* most once: no request had succeeded before it.
C22_ResultSlotClearedOnLeave ==
    [][/\ (location[1] = "results" /\ location' # location) =>
            storage'.quizResult = None
       /\ event' = "leave" =>
            /\ location' \in { SelectPage, QuizHistory, Dashboard }
            /\ storage'.quizResult = None
       /\ (storage'.quizResult # storage.quizResult /\ storage'.quizResult # None) =>
            /\ event' = "resolved"
            /\ \A i \in 1..Len(requests) : requests[i].outcome # "ok"]_<<vars, aside>>

C22_Witness ==
    /\ event = "leave"
    /\ location = QuizHistory
    /\ storage.quizResult = None
    /\ Len(requests) = 2
    /\ requests[2].outcome = "ok"

\* C23: whenever a question becomes current (the quiz loads, or the index
\* moves) showHint is false, and every step that accepts an answer ends with
\* showHint false, whatever it was before.
C23_HintClearedOnAccept ==
    [][/\ (quiz = None /\ quiz' # None) => ~showHint'
       /\ currentIndex' # currentIndex => ~showHint'
       /\ Len(answers') > Len(answers) => ~showHint'
       /\ (showHint' /\ ~showHint) =>
            /\ event' = "hint"
            /\ currentIndex' = currentIndex]_vars

\* the second question has become current after the first, which has a hint
\* in practice mode, was answered
C23_Witness ==
    /\ version = "new"
    /\ Answering
    /\ quiz[1].mode = "practice"
    /\ quiz[1].questions[1].hint
    /\ event = "answer"
    /\ currentIndex = 1
    /\ Len(answers) = 1
    /\ ~showHint

\* C28: in every submission request the quiz_id is the id of the quiz material
\* the session loaded from the currentQuiz slot: the quiz whose questions
\* were answered is the quiz the request names
C28_SubmitsLoadedQuizId ==
    Loaded => \A i \in 1..Len(requests) :
                  requests[i].payload.quiz_id = quiz[1].id

---------------------------------------------------------------------------
(* The DailyChallenge page *)

MaxDailyQuestions == 2

\* the quiz session's variables while another page is on screen
QuizAway(page) ==
    /\ version = "new"
    /\ storage = [currentQuiz |-> None, quizResult |-> None]
    /\ quizId = "quizA"
    /\ location = page
    /\ quiz = None
    /\ currentIndex = 0
    /\ answers = <<>>
    /\ userAnswer = <<>>
    /\ now = 0
    /\ startTime = 0
    /\ questionStartTime = 0
    /\ submitting = FALSE
    /\ showHint = FALSE
    /\ loadRan = FALSE
    /\ crashed = FALSE
    /\ requests = <<>>
    /\ event = "mount"
    /\ notice = <<>>

DailyPage == <<"daily">>

\* res.data of POST /daily/submit
DailyResult == [score |-> 100, bonus_points |-> 10]

\* res.data of GET /daily/challenge: a challenge still open, or one already done
DailyResponses ==
    { [challenge |-> Some([questions |-> [k \in 1..n |-> Question(k)]]),
       completed |-> FALSE,
       result |-> None] : n \in 0..MaxDailyQuestions }
    \cup
    { [challenge |-> Some([questions |-> [k \in 1..MaxDailyQuestions |-> Question(k)]]),
       completed |-> TRUE,
       result |-> Some(DailyResult)] }

\* challenge?.questions || []
DailyQuestions(d) == IF d.challenge = None THEN <<>> ELSE d.challenge[1].questions

\* Object.keys(answers)
ObjectKeys(o) == DOMAIN o

\* answers[q.id] || ""
AnswerOr(o, id) == IF id \in DOMAIN o THEN o[id] ELSE <<>>

\* { ...answers, [qId]: answer }
handleAnswer(o, qId, answer) ==
    [id \in DOMAIN o \cup { qId } |-> IF id = qId THEN answer ELSE o[id]]

\* questions.map((q) => ({ question_id: q.id, user_answer: answers[q.id] || "" }))
DailyPayload(questions, o) ==
    [answers |-> [k \in 1..Len(questions) |->
                     [question_id |-> questions[k].id,
                      user_answer |-> AnswerOr(o, questions[k].id)]]]

DailyOthers == <<vars, resultsPage, sw, srs, app, twin>>

InitDaily ==
    /\ QuizAway(DailyPage)
    /\ twin = TwinInStep
    /\ resultsPage = ResultsUnmounted
    /\ daily = DailyMounted
    /\ sw = SwActivated
    /\ srs = SrsMounted
    /\ app = AppSignedIn

\* fetchChallenge: the GET returns
fetchChallengeThen(res) ==
    /\ daily.awaiting = "challenge"
    /\ daily' = [daily EXCEPT !.challenge = res.challenge,
                              !.completed = res.completed,
                              !.submittedResult = res.result,
                              !.loading = FALSE,
                              !.awaiting = "none",
                              !.event = "fetched",
                              !.notice = <<>>]
    /\ UNCHANGED DailyOthers

\* fetchChallenge: the GET fails
fetchChallengeCatch ==
    /\ daily.awaiting = "challenge"
    /\ daily' = [daily EXCEPT !.loading = FALSE,
                              !.awaiting = "none",
                              !.event = "fetchFailed",
                              !.notice = <<"Failed to load daily challenge">>]
    /\ UNCHANGED DailyOthers

\* the question cards take input: past the spinner, and not completed
DailyTakesInput == ~daily.loading /\ ~daily.completed

\* onClick of option idx of question k
DailyClickOption(k, idx) ==
    /\ DailyTakesInput
    /\ k \in 1..Len(DailyQuestions(daily))
    /\ LET q == DailyQuestions(daily)[k] IN
       /\ q.type = "mcq" /\ q.options # None
       /\ idx \in 1..Len(q.options[1])
       /\ daily' = [daily EXCEPT
                      !.answers = handleAnswer(daily.answers, q.id, CharAt0(q.options[1][idx])),
                      !.event = "answer",
                      !.notice = <<>>]
    /\ UNCHANGED DailyOthers

\* onChange of the text input of question k: the value differs from the one shown
DailyType(k, value) ==
    /\ DailyTakesInput
    /\ k \in 1..Len(DailyQuestions(daily))
    /\ LET q == DailyQuestions(daily)[k] IN
       /\ ~(q.type = "mcq" /\ q.options # None)
       /\ value # AnswerOr(daily.answers, q.id)
       /\ daily' = [daily EXCEPT
                      !.answers = handleAnswer(daily.answers, q.id, value),
                      !.event = "answer",
                      !.notice = <<>>]
    /\ UNCHANGED DailyOthers

\* the Submit Challenge button is rendered and enabled
DailySubmitEnabled ==
    /\ ~daily.loading
    /\ ~daily.completed
    /\ Len(DailyQuestions(daily)) > 0
    /\ ~(\/ daily.submitting
         \/ Cardinality(ObjectKeys(daily.answers)) < Len(DailyQuestions(daily)))

\* handleSubmit up to its first await
handleSubmit ==
    /\ DailySubmitEnabled
    /\ LET questions == DailyQuestions(daily) IN
       IF Cardinality(ObjectKeys(daily.answers)) < Len(questions)
       THEN daily' = [daily EXCEPT
                        !.event = "submit",
                        !.notice = <<"Please answer all questions before submitting">>]
       ELSE daily' = [daily EXCEPT
                        !.submitting = TRUE,
                        !.awaiting = "post",
                        !.posts = Append(@, [payload |-> DailyPayload(questions, daily.answers),
                                             outcome |-> "pending"]),
                        !.event = "submit",
                        !.notice = <<>>]
    /\ UNCHANGED DailyOthers

\* handleSubmit: the POST returns; the result is kept and the re-fetch leaves
handleSubmitPosted ==
    /\ daily.awaiting = "post"
    /\ daily' = [daily EXCEPT
                   !.submittedResult = Some(DailyResult),
                   !.completed = TRUE,
                   !.awaiting = "fresh",
                   !.posts[Len(daily.posts)].outcome = "ok",
                   !.event = "posted",
                   !.notice = <<"Daily challenge complete!">>]
    /\ UNCHANGED DailyOthers

\* handleSubmit: the POST fails; catch, then finally
handleSubmitPostFailed ==
    /\ daily.awaiting = "post"
    /\ Len(daily.posts) <= MaxFailures
    /\ daily' = [daily EXCEPT
                   !.submitting = FALSE,
                   !.awaiting = "none",
                   !.posts[Len(daily.posts)].outcome = "failed",
                   !.event = "postFailed",
                   !.notice = <<"Failed to submit">>]
    /\ UNCHANGED DailyOthers

\* handleSubmit: the re-fetch returns; finally
handleSubmitRefetched(fresh) ==
    /\ daily.awaiting = "fresh"
    /\ daily' = [daily EXCEPT
                   !.challenge = fresh.challenge,
                   !.submitting = FALSE,
                   !.awaiting = "none",
                   !.event = "refetched",
                   !.notice = <<>>]
    /\ UNCHANGED DailyOthers

\* handleSubmit: the re-fetch fails inside the same try; catch, then finally
handleSubmitRefetchFailed ==
    /\ daily.awaiting = "fresh"
    /\ daily' = [daily EXCEPT
                   !.submitting = FALSE,
                   !.awaiting = "none",
                   !.event = "refetchFailed",
                   !.notice = <<"Failed to submit">>]
    /\ UNCHANGED DailyOthers

NextDaily ==
    \/ \E res \in DailyResponses : fetchChallengeThen(res)
    \/ fetchChallengeCatch
    \/ \E k \in 1..MaxDailyQuestions, idx \in 1..Len(Options) : DailyClickOption(k, idx)
    \/ \E k \in 1..MaxDailyQuestions, value \in Inputs : DailyType(k, value)
    \/ handleSubmit
    \/ handleSubmitPosted
    \/ handleSubmitPostFailed
    \/ \E fresh \in DailyResponses : handleSubmitRefetched(fresh)
    \/ handleSubmitRefetchFailed

SpecDaily == InitDaily /\ [][NextDaily]_daily

\* the condition C24 speaks of: every question of the challenge has a
\* non-empty answer (the code itself only counts keys)
AllAnswered(d) ==
    \A k \in 1..Len(DailyQuestions(d)) :
        Truthy(AnswerOr(d.answers, DailyQuestions(d)[k].id))

\* C24: handleSubmit sends the POST only when every question has a non-empty
\* answer, then with one record per question in question order; otherwise it
\* raises "Please answer all questions before submitting" and sends nothing.
C24_SubmitsOnlyWhenAllAnswered ==
    [][daily'.event = "submit" =>
          IF AllAnswered(daily)
          THEN /\ Len(daily'.posts) = Len(daily.posts) + 1
               /\ LET sent == daily'.posts[Len(daily'.posts)].payload.answers IN
                  /\ Len(sent) = Len(DailyQuestions(daily))
                  /\ \A k \in 1..Len(sent) :
                         /\ sent[k].question_id = DailyQuestions(daily)[k].id
                         /\ sent[k].user_answer = daily.answers[sent[k].question_id]
          ELSE /\ daily'.posts = daily.posts
               /\ daily'.notice = <<"Please answer all questions before submitting">>]_daily

\* C29: the failure notice of handleSubmit appears only on the step on which
\* the POST fails; once a POST has succeeded completed is true, the result is
\* stored, no failure notice appears and no further POST is issued; and
\* whenever no request of handleSubmit is awaited submitting is false.
C29_FailureNoticeOnlyOnFailedPost ==
    [][/\ daily'.notice = <<"Failed to submit">> =>
            /\ daily.awaiting = "post"
            /\ daily'.posts[Len(daily'.posts)].outcome = "failed"
       /\ (\E i \in 1..Len(daily'.posts) : daily'.posts[i].outcome = "ok") =>
            /\ daily'.completed
            /\ daily'.submittedResult # None
            /\ daily'.notice # <<"Failed to submit">>
       /\ (\E i \in 1..Len(daily.posts) : daily.posts[i].outcome = "ok") =>
            Len(daily'.posts) = Len(daily.posts)
       /\ daily'.awaiting \notin { "post", "fresh" } => ~daily'.submitting]_daily

---------------------------------------------------------------------------
(* The service worker's fetch listener *)

MaxFetches == 2

\* String.prototype.startsWith
StartsWith(s, prefix) ==
    /\ Len(s) >= Len(prefix)
    /\ SubSeq(s, 1, Len(prefix)) = prefix

\* IsApiCall with === in place of startsWith
IsApiCall_ExactMatch(path) == path = ApiPrefix

\* url.pathname.startsWith("/api")
IsApiCall(path) == StartsWith(path, ApiPrefix)

SwOthers == <<vars, resultsPage, daily, srs, app, twin>>

InitSw ==
    /\ QuizAway(Dashboard)
    /\ twin = TwinInStep
    /\ resultsPage = ResultsUnmounted
    /\ daily = DailyMounted
    /\ sw = SwActivated
    /\ srs = SrsMounted
    /\ app = AppSignedIn

\* a fetch event arrives and the listener runs: it returns at once for an API
\* call, and otherwise calls respondWith with a promise that starts at
\* caches.match
FetchEvent(path) ==
    /\ Len(sw.events) < MaxFetches
    /\ sw' = [sw EXCEPT !.events =
                Append(@, [path |-> path,
                           phase |-> IF IsApiCall(path) THEN "browser" ELSE "matching",
                           intercepted |-> ~IsApiCall(path),
                           cached |-> None,
                           fetched |-> None,
                           answer |-> None])]
    /\ UNCHANGED SwOthers

\* not intercepted: the browser performs the request itself
BrowserFetch(i, outcome) ==
    /\ i \in 1..Len(sw.events)
    /\ sw.events[i].phase = "browser"
    /\ sw' = [sw EXCEPT !.events[i].phase = "done",
                        !.events[i].fetched = outcome,
                        !.events[i].answer = Some([from |-> "network", response |-> outcome])]
    /\ UNCHANGED SwOthers

\* caches.match resolves: fetch starts, and a cached entry answers at once
CachesMatch(i) ==
    /\ i \in 1..Len(sw.events)
    /\ sw.events[i].phase = "matching"
    /\ LET cached == sw.cache[sw.events[i].path] IN
       sw' = [sw EXCEPT !.events[i].phase = "fetching",
                        !.events[i].cached = cached,
                        !.events[i].answer =
                            IF cached # None
                            THEN Some([from |-> "cache", response |-> cached])
                            ELSE None]
    /\ UNCHANGED SwOthers

\* fetch resolves: an ok response is cloned for the cache, and the response
\* answers the request unless the cached entry already has
FetchThen(i, response) ==
    /\ i \in 1..Len(sw.events)
    /\ sw.events[i].phase = "fetching"
    /\ sw' = [sw EXCEPT !.events[i].phase = IF response.ok THEN "putting" ELSE "done",
                        !.events[i].fetched = Some(response),
                        !.events[i].answer =
                            IF sw.events[i].cached # None
                            THEN @
                            ELSE Some([from |-> "network", response |-> Some(response)])]
    /\ UNCHANGED SwOthers

\* fetch rejects: .catch(() => cached)
FetchCatch(i) ==
    /\ i \in 1..Len(sw.events)
    /\ sw.events[i].phase = "fetching"
    /\ sw' = [sw EXCEPT !.events[i].phase = "done",
                        !.events[i].answer =
                            IF sw.events[i].cached # None
                            THEN @
                            ELSE Some([from |-> "nothing", response |-> None])]
    /\ UNCHANGED SwOthers

\* caches.open(CACHE_NAME).then((cache) => cache.put(event.request, clone))
CachePut(i) ==
    /\ i \in 1..Len(sw.events)
    /\ sw.events[i].phase = "putting"
    /\ sw' = [sw EXCEPT !.events[i].phase = "done",
                        !.cache[sw.events[i].path] = sw.events[i].fetched]
    /\ UNCHANGED SwOthers

NextSw ==
    \/ \E path \in Paths : FetchEvent(path)
    \/ \E i \in 1..MaxFetches, response \in NetworkResponses : BrowserFetch(i, Some(response))
    \/ \E i \in 1..MaxFetches : BrowserFetch(i, None)
    \/ \E i \in 1..MaxFetches : CachesMatch(i)
    \/ \E i \in 1..MaxFetches, response \in NetworkResponses : FetchThen(i, response)
    \/ \E i \in 1..MaxFetches : FetchCatch(i)
    \/ \E i \in 1..MaxFetches : CachePut(i)

SpecSw == InitSw /\ [][NextSw]_sw

\* C25: a request whose path starts with /api is never intercepted, never
\* answered from the cache and never stored; any other request is answered
\* with the cached entry when caches.match finds one, and every stored
\* response has ok status.
C25_ApiNeverCached ==
    [][/\ \A p \in Paths :
            /\ StartsWith(p, ApiPrefix) => sw'.cache[p] = None
            /\ sw'.cache[p] # None => sw'.cache[p][1].ok
       /\ \A i \in 1..Len(sw'.events) :
            StartsWith(sw'.events[i].path, ApiPrefix) =>
                /\ ~sw'.events[i].intercepted
                /\ sw'.events[i].cached = None
                /\ sw'.events[i].answer # None => sw'.events[i].answer[1].from = "network"
       /\ \A i \in 1..Len(sw.events) :
            /\ (/\ ~StartsWith(sw.events[i].path, ApiPrefix)
                /\ sw.events[i].phase = "matching"
                /\ sw'.events[i].phase # "matching"
                /\ sw.cache[sw.events[i].path] # None) =>
                   sw'.events[i].answer =
                       Some([from |-> "cache", response |-> sw.cache[sw.events[i].path]])
            /\ sw.events[i].answer # None =>
                   sw'.events[i].answer = sw.events[i].answer]_sw

C25_Witness ==
    /\ Len(sw.events) = 2
    /\ sw.events[1].path = ApiPrefix \o <<"/", "q">>
    /\ sw.events[1].answer = Some([from |-> "network",
                                   response |-> Some([ok |-> TRUE, status |-> 200])])
    /\ sw.events[2].path = RootPath
    /\ sw.events[2].answer # None
    /\ sw.events[2].answer[1].from = "cache"
    /\ sw.events[2].phase = "done"
    /\ sw.events[2].fetched # None

---------------------------------------------------------------------------
(* The SRSReview page *)

MaxCards == 2

\* the reviews that may be in flight together
MaxReviews == 2

\* the calls of fetchData that may be in flight together
MaxFetching == 1

SrsPage == <<"srs">>

\* cardsRes.data.cards with n cards due
DueCards(n) == [k \in 1..n |-> [id |-> k, question |-> Question(k)]]

SrsOthers == <<vars, resultsPage, daily, sw, app, twin>>

InitSrs ==
    /\ QuizAway(SrsPage)
    /\ twin = TwinInStep
    /\ resultsPage = ResultsUnmounted
    /\ daily = DailyMounted
    /\ sw = SwActivated
    /\ srs = SrsMounted
    /\ app = AppSignedIn

\* cards[currentIdx] is a card and the page is past its spinner
CardShown ==
    /\ ~srs.loading
    /\ srs.currentIdx + 1 \in DOMAIN srs.cards

currentCard == srs.cards[srs.currentIdx + 1]

\* fetchData: both GETs return
fetchDataThen(n) ==
    /\ srs.fetching > 0
    /\ srs' = [srs EXCEPT !.cards = DueCards(n),
                          !.loading = FALSE,
                          !.fetching = @ - 1,
                          !.event = "fetched",
                          !.notice = <<>>]
    /\ UNCHANGED SrsOthers

\* fetchData: a GET fails
fetchDataCatch ==
    /\ srs.fetching > 0
    /\ srs' = [srs EXCEPT !.loading = FALSE,
                          !.fetching = @ - 1,
                          !.event = "fetchFailed",
                          !.notice = <<"Failed to load review cards">>]
    /\ UNCHANGED SrsOthers

\* the answer controls are rendered: {!showResult && ...}
SrsTakesInput == CardShown /\ ~srs.showResult

SrsTextShown ==
    ~(currentCard.question.type = "mcq" /\ currentCard.question.options # None)

\* onChange of the text input
SrsType(value) ==
    /\ SrsTakesInput
    /\ SrsTextShown
    /\ value # srs.answer
    /\ srs' = [srs EXCEPT !.answer = value, !.event = "type", !.notice = <<>>]
    /\ UNCHANGED SrsOthers

\* onClick of option idx
SrsClickOption(idx) ==
    /\ SrsTakesInput
    /\ ~SrsTextShown
    /\ idx \in 1..Len(currentCard.question.options[1])
    /\ srs' = [srs EXCEPT !.answer = CharAt0(currentCard.question.options[1][idx]),
                          !.event = "option",
                          !.notice = <<>>]
    /\ UNCHANGED SrsOthers

\* Check Answer (enabled while answer.trim() is non-empty), or Enter in the
\* text input: handleSubmit up to its await
SrsHandleSubmit ==
    /\ SrsTakesInput
    /\ SrsTextShown \/ Truthy(Trim(srs.answer))
    /\ IF ~Truthy(Trim(srs.answer))
       THEN srs' = [srs EXCEPT !.event = "check",
                               !.notice = <<"Please provide an answer">>]
       ELSE /\ Len(srs.reviews) < MaxReviews
            /\ srs' = [srs EXCEPT !.reviews = Append(@, currentCard.id),
                                  !.event = "check",
                                  !.notice = <<>>]
    /\ UNCHANGED SrsOthers

\* the sequence without its i-th entry
RemoveAt(seq, i) == SubSeq(seq, 1, i - 1) \o SubSeq(seq, i + 1, Len(seq))

\* handleSubmit: the POST for a card returns its grading
SrsHandleSubmitThen(i) ==
    /\ i \in 1..Len(srs.reviews)
    /\ srs' = [srs EXCEPT !.lastResult = Some([card_id |-> srs.reviews[i]]),
                          !.showResult = TRUE,
                          !.reviews = RemoveAt(@, i),
                          !.event = "graded",
                          !.notice = <<>>]
    /\ UNCHANGED SrsOthers

\* handleSubmit: the POST fails
SrsHandleSubmitCatch(i) ==
    /\ i \in 1..Len(srs.reviews)
    /\ srs' = [srs EXCEPT !.reviews = RemoveAt(@, i),
                          !.event = "gradeFailed",
                          !.notice = <<"Failed to submit review">>]
    /\ UNCHANGED SrsOthers

\* the result panel with its Next Card button: {showResult && lastResult && ...}
ResultPanelShown == CardShown /\ srs.showResult /\ srs.lastResult # None

handleNext ==
    /\ ResultPanelShown
    /\ IF srs.currentIdx + 1 < Len(srs.cards)
       THEN srs' = [srs EXCEPT !.showResult = FALSE,
                               !.lastResult = None,
                               !.answer = <<>>,
                               !.currentIdx = @ + 1,
                               !.event = "next",
                               !.notice = <<>>]
       ELSE /\ srs.fetching < MaxFetching
            /\ srs' = [srs EXCEPT
                               !.showResult = FALSE,
                               !.lastResult = None,
                               !.answer = <<>>,
                               !.currentIdx = 0,
                               !.fetching = @ + 1,
                               !.event = "next",
                               !.notice = <<"Review session complete!">>]
    /\ UNCHANGED SrsOthers

NextSrs ==
    \/ \E n \in 0..MaxCards : fetchDataThen(n)
    \/ fetchDataCatch
    \/ \E value \in Inputs : SrsType(value)
    \/ \E idx \in 1..Len(Options) : SrsClickOption(idx)
    \/ SrsHandleSubmit
    \/ \E i \in 1..MaxReviews : SrsHandleSubmitThen(i)
    \/ \E i \in 1..MaxReviews : SrsHandleSubmitCatch(i)
    \/ handleNext

SpecSrs == InitSrs /\ [][NextSrs]_srs

\* C26: whenever the result panel is shown lastResult is the grading of the
\* card on display, cards[currentIdx].
C26_ResultIsOfDisplayedCard ==
    ResultPanelShown => srs.lastResult[1].card_id = currentCard.id

---------------------------------------------------------------------------
(* App: authentication state and the route guards *)

Tabs == 1..MaxTabs

Tokens == { "t1", "t2" }

Users == { [name |-> "ann"], [name |-> "bob"] }

\* the routes whose element is isAuthenticated ? <Page/> : <Navigate to="/auth"/>
ProtectedPaths == { "/dashboard", "/quiz/:quizId", "/profile" }

RoutePaths == { "/", "/auth" } \cup ProtectedPaths

AppOthers == <<vars, resultsPage, daily, sw, srs, twin>>

\* nothing is stored and no tab is open
InitApp ==
    /\ QuizAway(Dashboard)
    /\ twin = TwinInStep
    /\ resultsPage = ResultsUnmounted
    /\ daily = DailyMounted
    /\ sw = SwActivated
    /\ srs = SrsMounted
    /\ app = [localStorage |-> [token |-> None, user |-> None],
              tabs |-> [t \in Tabs |-> AppMounted("closed")]]

TabOpen(t) == app.tabs[t].path # "closed" /\ ~app.tabs[t].crashed

\* <Routes>: the element rendered for a path
RouteElement(path, isAuthenticated) ==
    IF path = "/" THEN "LandingPage"
    ELSE IF path = "/auth"
         THEN IF isAuthenticated THEN "Navigate /dashboard" ELSE "AuthPage"
    ELSE IF path \in ProtectedPaths
         THEN IF isAuthenticated THEN "Page" ELSE "Navigate /auth"
    ELSE "nothing"

\* what tab t shows
Rendered(tab) ==
    IF tab.path = "closed" \/ tab.crashed
    THEN "nothing"
    ELSE RouteElement(tab.path, tab.isAuthenticated)

\* the user opens the application in tab t at a route
OpenTab(t, path) ==
    /\ app.tabs[t].path = "closed"
    /\ app' = [app EXCEPT !.tabs[t] = AppMounted(path)]
    /\ UNCHANGED AppOthers

\* the user closes tab t
CloseTab(t) ==
    /\ app.tabs[t].path # "closed"
    /\ app' = [app EXCEPT !.tabs[t] = AppMounted("closed")]
    /\ UNCHANGED AppOthers

\* the mount effect of App
AppEffect(t) ==
    /\ TabOpen(t)
    /\ ~app.tabs[t].effectRan
    /\ LET token == app.localStorage.token
           storedUser == app.localStorage.user
       IN  IF token # None /\ storedUser # None
           THEN IF JSONparseThrows(storedUser[1])
                THEN app' = [app EXCEPT !.tabs[t].effectRan = TRUE,
                                        !.tabs[t].crashed = TRUE,
                                        !.tabs[t].event = "effect"]
                ELSE app' = [app EXCEPT !.tabs[t].effectRan = TRUE,
                                        !.tabs[t].isAuthenticated = TRUE,
                                        !.tabs[t].user = Some(JSONparse(storedUser[1])),
                                        !.tabs[t].event = "effect"]
           ELSE app' = [app EXCEPT !.tabs[t].effectRan = TRUE,
                                   !.tabs[t].event = "effect"]
    /\ UNCHANGED AppOthers

\* the element of the current route is a protected page
ProtectedPageRendered(t) == Rendered(app.tabs[t]) = "Page"

\* the element of the current route is <AuthPage onAuth={handleAuth} />
AuthPageRendered(t) == Rendered(app.tabs[t]) = "AuthPage"

\* the element of the current route is a <Navigate>: the router follows it
FollowNavigate(t) ==
    /\ \/ /\ Rendered(app.tabs[t]) = "Navigate /auth"
          /\ app' = [app EXCEPT !.tabs[t].path = "/auth", !.tabs[t].event = "navigate"]
       \/ /\ Rendered(app.tabs[t]) = "Navigate /dashboard"
          /\ app' = [app EXCEPT !.tabs[t].path = "/dashboard", !.tabs[t].event = "navigate"]
    /\ UNCHANGED AppOthers

\* the user follows a link inside the application
GoTo(t, path) ==
    /\ TabOpen(t)
    /\ path # app.tabs[t].path
    /\ app' = [app EXCEPT !.tabs[t].path = path, !.tabs[t].event = "link"]
    /\ UNCHANGED AppOthers

\* AuthPage calls onAuth(token, userData)
handleAuth(t, token, userData) ==
    /\ AuthPageRendered(t)
    /\ app' = [app EXCEPT !.localStorage.token = Some(token),
                          !.localStorage.user = Some(JSONstringify(userData)),
                          !.tabs[t].isAuthenticated = TRUE,
                          !.tabs[t].user = Some(userData),
                          !.tabs[t].event = "auth"]
    /\ UNCHANGED AppOthers

\* a protected page calls onLogout
handleLogout(t) ==
    /\ ProtectedPageRendered(t)
    /\ app' = [app EXCEPT !.localStorage.token = None,
                          !.localStorage.user = None,
                          !.tabs[t].isAuthenticated = FALSE,
                          !.tabs[t].user = None,
                          !.tabs[t].event = "logout"]
    /\ UNCHANGED AppOthers

NextApp ==
    \/ \E t \in Tabs, path \in RoutePaths : OpenTab(t, path)
    \/ \E t \in Tabs : CloseTab(t)
    \/ \E t \in Tabs : AppEffect(t)
    \/ \E t \in Tabs : FollowNavigate(t)
    \/ \E t \in Tabs, path \in RoutePaths : GoTo(t, path)
    \/ \E t \in Tabs, token \in Tokens, userData \in Users : handleAuth(t, token, userData)
    \/ \E t \in Tabs : handleLogout(t)

SpecApp == InitApp /\ [][NextApp]_app

\* C27: in every tab a protected page is rendered only while isAuthenticated
\* is true; isAuthenticated is true only while localStorage holds both token
\* and user and the user state is non-null; and handleLogout leaves the tab
\* unauthenticated with both keys removed.
C27_AuthenticatedMeansStored ==
    [][\A t \in Tabs :
          /\ Rendered(app'.tabs[t]) = "Page" => app'.tabs[t].isAuthenticated
          /\ app'.tabs[t].isAuthenticated =>
                /\ app'.localStorage.token # None
                /\ app'.localStorage.user # None
                /\ app'.tabs[t].user # None
          /\ (app'.tabs[t].event = "logout" /\ app'.tabs[t] # app.tabs[t]) =>
                /\ ~app'.tabs[t].isAuthenticated
                /\ app'.tabs[t].user = None
                /\ app'.localStorage.token = None
                /\ app'.localStorage.user = None]_app

---------------------------------------------------------------------------
(* The two versions of QuizInterface, taken through the same events *)

\* the state of the mounted session, as one record
Session ==
    [version |-> version, storage |-> storage, quizId |-> quizId,
     location |-> location, quiz |-> quiz, currentIndex |-> currentIndex,
     answers |-> answers, userAnswer |-> userAnswer, startTime |-> startTime,
     questionStartTime |-> questionStartTime, submitting |-> submitting,
     showHint |-> showHint, loadRan |-> loadRan, crashed |-> crashed,
     now |-> now, requests |-> requests, event |-> event, notice |-> notice]

\* the state a step leaves the session in
SessionAfter ==
    [version |-> version', storage |-> storage', quizId |-> quizId',
     location |-> location', quiz |-> quiz', currentIndex |-> currentIndex',
     answers |-> answers', userAnswer |-> userAnswer', startTime |-> startTime',
     questionStartTime |-> questionStartTime', submitting |-> submitting',
     showHint |-> showHint', loadRan |-> loadRan', crashed |-> crashed',
     now |-> now', requests |-> requests', event |-> event', notice |-> notice']

\* one effect, handler or continuation of the mounted QuizInterface
SessionStep ==
    \/ LoadEffect
    \/ LoadEffectOld
    \/ Tick
    \/ \E value \in Inputs : TypeAnswer(value)
    \/ \E idx \in 1..Len(Options) : ClickOption(idx)
    \/ ClickShowHint
    \/ handleAnswerSubmit
    \/ handleAnswerSubmitOld
    \/ \E i \in 1..Len(requests), resultId \in ResultIds : RemoteAccept(i, resultId)
    \/ \E i \in 1..Len(requests) : submitQuizThen(i)
    \/ \E i \in 1..Len(requests) : submitQuizCatch(i)

OtherVersion(v) == IF v = "old" THEN "new" ELSE "old"

\* what the two versions are compared on: everything but which version it
\* is and the showHint flag, which only the newer version has
Observed(s) == [s EXCEPT !.version = "either", !.showHint = FALSE]

\* the same, for an event only one version has: the handler that ran last
\* and its toasts are left out as well
ObservedAtRest(s) == [Observed(s) EXCEPT !.event = "none", !.notice = <<>>]

\* the Show Hint button is on screen in session s of the newer version
HintOffered(s) ==
    /\ s.location = QuizPage(s.quizId)
    /\ ~s.crashed
    /\ RendersQuestion(s.quiz, s.submitting)
    /\ s.quiz[1].mode = "practice"
    /\ s.quiz[1].questions[s.currentIndex + 1].hint

PairOthers == <<resultsPage, daily, sw, srs, app>>

\* the material in the currentQuiz slot has a non-empty questions list
MaterialHasQuestions(storedQuiz) ==
    /\ storedQuiz # None
    /\ ~JSONparseThrows(storedQuiz[1])
    /\ JSONparse(storedQuiz[1]).hasQuestions
    /\ Len(JSONparse(storedQuiz[1]).questions) > 0

InitPair ==
    /\ Init
    /\ MaterialHasQuestions(storage.currentQuiz)

\* the mounted version takes a step; the session before and after it is kept
Lead ==
    /\ twin.turn = "lead"
    /\ SessionStep
    /\ twin' = [turn |-> "led", pre |-> Some(Session), post |-> Some(SessionAfter)]
    /\ UNCHANGED PairOthers

\* the other version is mounted on the session the step started from; the
\* showHint flag is the only state it does not share, FALSE in the older
\* version and either value in the newer one where the hint is offered
Rewind ==
    /\ twin.turn = "led"
    /\ LET s == twin.pre[1] IN
       /\ version' = OtherVersion(s.version)
       /\ storage' = s.storage
       /\ quizId' = s.quizId
       /\ location' = s.location
       /\ quiz' = s.quiz
       /\ currentIndex' = s.currentIndex
       /\ answers' = s.answers
       /\ userAnswer' = s.userAnswer
       /\ startTime' = s.startTime
       /\ questionStartTime' = s.questionStartTime
       /\ submitting' = s.submitting
       /\ showHint' \in IF s.version = "old" /\ HintOffered(s)
                        THEN BOOLEAN
                        ELSE { FALSE }
       /\ loadRan' = s.loadRan
       /\ crashed' = s.crashed
       /\ now' = s.now
       /\ requests' = s.requests
       /\ event' = s.event
       /\ notice' = s.notice
    /\ twin' = [twin EXCEPT !.turn = "follow"]
    /\ UNCHANGED PairOthers

\* the other version takes a step with the same event, the same input and
\* the same outcome, and ends where the first version ended
Follow ==
    /\ twin.turn = "follow"
    /\ SessionStep
    /\ Observed(SessionAfter) = Observed(twin.post[1])
    /\ twin' = TwinInStep
    /\ UNCHANGED PairOthers

\* Show Hint exists in the newer version only: the older one stays where it
\* is, which is where the newer one is but for the flag
FollowHint ==
    /\ twin.turn = "follow"
    /\ version = "old"
    /\ twin.post[1].event = "hint"
    /\ ObservedAtRest(Session) = ObservedAtRest(twin.post[1])
    /\ twin' = TwinInStep
    /\ UNCHANGED vars
    /\ UNCHANGED PairOthers

Follows == Follow \/ FollowHint

NextPair == Lead \/ Rewind \/ Follow \/ FollowHint

\* both versions started on the same material, which has questions
SpecPair == InitPair /\ [][NextPair]_<<vars, aside>>

\* C30: on material with a non-empty questions list, whatever step one
\* version of QuizInterface takes (an event, its input, the outcome of a
\* submission), the other version, in the same session, has a step for the
\* same event that ends with the same currentIndex, answers, submitting,
\* requests, sessionStorage and location (and the same of everything else
\* but showHint); Show Hint, which only the newer version has, changes
\* nothing but showHint.
C30_VersionsStepTogether == twin.turn = "follow" => ENABLED Follows

\* both versions have gone through a failed submission and a retry that
\* succeeded, the second of them repeating every step of the first
C30_Witness ==
    /\ twin = TwinInStep
    /\ Len(requests) = 2
    /\ requests[1].outcome = "failed"
    /\ requests[2].outcome = "ok"
    /\ location[1] = "results"
    /\ event = "resolved"

====
